---- MODULE Spec2Model ----
(***************************************************************************)
(* DeeperLSTM (models/deeperlstm.py): construction, weight initialisation  *)
(* and the forward pass of the CNN + LSTM visual question answering model. *)
(*                                                                         *)
(* Tensors are modelled by their shape (a sequence of naturals, computed   *)
(* exactly as the tensor library computes it) and by their content as      *)
(* symbolic terms: a cell of the question tensor is the term Word(k, t),   *)
(* "the token at step t of question k", an image is its identity and its   *)
(* magnitude.  Indices are 1-based here, 0-based in the code.  Parameter   *)
(* values are integers in thousandths.                                     *)
(***************************************************************************)
EXTENDS Integers, Sequences, FiniteSets, TLC

VARIABLES pc, cfg, layers, params, params0, initCount, training,
          tieOrder, op, call, ref

vars == <<pc, cfg, layers, params, params0, initCount, training,
          tieOrder, op, call, ref>>

\* ------------------------------------------------------------- bounds
MaxB == 2
MaxT == 2
MaxDim == 2

\* ------------------------------------------------- program constants
VocabSize == 10
embed_dim == 200
image_dim == 4096
hidden_dim == 512
output_dim == 1000
num_rnn_layers == 2
num_directions == 1
InitBound == 80

None == [none |-> TRUE]
\* A raised exception leaves no tensor: the empty tensor / empty shape.
Failed == <<>>

\* ------------------------------------------------------------ helpers
Last(s) == s[Len(s)]
ReplaceLast(s, x) == [s EXCEPT ![Len(s)] = x]
Max(a, b) == IF a >= b THEN a ELSE b

RECURSIVE GCD(_, _)
GCD(a, b) == IF b = 0 THEN a ELSE GCD(b, a % b)

RECURSIVE SumSq(_, _)
SumSq(img, n) == IF n = 0 THEN 0 ELSE img[n].mag * img[n].mag + SumSq(img, n - 1)

ISqrt(n) == CHOOSE r \in 0..n : r * r <= n /\ (r + 1) * (r + 1) > n

\* ------------------------------------------------- random number stream
\* The j-th draw of the generator: a uniform value on [lo, hi].
Uniform(lo, hi, j) == lo + ((37 + j * 61) % (hi - lo + 1))

\* The masks a Dropout layer may draw, and the orders in which the sort of
\* the build may leave items of equal length.
Masks == {"m1", "m2"}
TieOrders == {"ascending", "descending"}

\* ------------------------------------------------------- construction
\* nn.Sequential containers of __init__, in the order of their creation.
\* feature_extractor exists only when raw_images is set.
Containers(c) ==
  [feature_extractor |-> IF c.raw_images THEN <<"vgg16">> ELSE <<>>,
   embedding         |-> <<"Linear", "Dropout", "Tanh">>,
   rnn               |-> <<"LSTM">>,
   image_embed       |-> <<"Dropout", "Linear", "Tanh">>,
   question_embed    |-> <<"Dropout", "Linear", "Tanh">>,
   mlp               |-> <<"Dropout", "Linear">>]

\* in_features of the Linear layer of each container.
FanIn(c, container) ==
  CASE container = "embedding"      -> c.vocab_size
    [] container = "image_embed"    -> c.image_dim
    [] container = "question_embed" -> c.num_rnn_layers * 2 * c.hidden_dim
    [] container = "mlp"            -> c.rnn_output_dim

FanOut(c, container) ==
  CASE container = "embedding"      -> c.embed_dim
    [] container = "image_embed"    -> c.image_embed_dim
    [] container = "question_embed" -> c.rnn_output_dim
    [] container = "mlp"            -> c.output_dim

ContainerNames == {"embedding", "image_embed", "question_embed", "mlp"}

\* The learned tensors: weight and bias of every Linear, and of the LSTM.
ParamKeys ==
  {<<n, i, p>> : n \in ContainerNames, i \in 1..3, p \in {"weight", "bias"}}
  \cup {<<"rnn", 0, "weight">>, <<"rnn", 0, "bias">>}

LinearKeys(ls) ==
  {k \in ParamKeys : k[1] \in ContainerNames /\ k[2] \in 1..Len(ls[k[1]])
                     /\ ls[k[1]][k[2]] = "Linear"}

RnnKeys == {<<"rnn", 0, "weight">>, <<"rnn", 0, "bias">>}

\* The library's default bound 1/sqrt(fan_in), in thousandths.
DefaultBound(c, k) ==
  IF k[1] = "rnn" THEN 1000 \div ISqrt(c.hidden_dim)
  ELSE 1000 \div ISqrt(FanIn(c, k[1]))

KeyOrder(k) ==
  (CASE k[1] = "embedding" -> 0 [] k[1] = "rnn" -> 2 [] k[1] = "image_embed" -> 4
     [] k[1] = "question_embed" -> 6 [] k[1] = "mlp" -> 8)
  + (IF k[3] = "weight" THEN 0 ELSE 1)

DefaultInit(c, ls) ==
  [k \in LinearKeys(ls) \cup RnnKeys |->
     [by |-> "default", writes |-> 1,
      val |-> Uniform(-DefaultBound(c, k), DefaultBound(c, k), KeyOrder(k))]]

\* hasattr(l, 'weight')
HasWeight(l) == l = "Linear"

\* The containers init_weights loops over, in order.
InitContainersNoMlp == <<"embedding", "image_embed", "question_embed">>
InitContainers == <<"embedding", "image_embed", "question_embed", "mlp">>

\* for l in <container>: if hasattr(l, 'weight'): uniform_(l.weight, ...)
InitTargets(ls) ==
  UNION {{<<InitContainers[j], i, "weight">> :
            i \in {i \in 1..Len(ls[InitContainers[j]]) : HasWeight(ls[InitContainers[j]][i])}}
         : j \in 1..Len(InitContainers)}

InitWeightsOf(ps, ls) ==
  [k \in DOMAIN ps |->
     IF k \in InitTargets(ls)
     THEN [by |-> "init_weights", writes |-> ps[k].writes + 1,
           val |-> Uniform(-InitBound, InitBound, 10 + KeyOrder(k))]
     ELSE ps[k]]

\* The constructor arguments tried.  Raw-image mode needs the pretrained
\* extractor, which is no part of this module's source: it is not constructed.
Configs ==
  [vocab_size : {VocabSize}, embed_dim : {embed_dim}, image_dim : {image_dim},
   image_embed_dim : {1, MaxDim}, hidden_dim : {hidden_dim},
   rnn_output_dim : {1, MaxDim}, output_dim : {output_dim},
   batch_first : BOOLEAN, raw_images : {FALSE},
   num_rnn_layers : {num_rnn_layers}, num_directions : {num_directions}]

Init ==
  /\ pc = "new"
  /\ cfg \in Configs
  /\ layers = <<>>
  /\ params = <<>>
  /\ params0 = <<>>
  /\ initCount = 0
  /\ training = TRUE
  /\ tieOrder \in TieOrders
  /\ op = "none"
  /\ call = None
  /\ ref = None

\* __init__ up to the call of init_weights: the layers exist with the
\* library's default initialisation.
CreateLayers ==
  /\ pc = "new"
  /\ pc' = "layers"
  /\ layers' = Containers(cfg)
  /\ params' = DefaultInit(cfg, Containers(cfg))
  /\ op' = "create"
  /\ UNCHANGED <<cfg, params0, initCount, training, tieOrder, call, ref>>

\* self.init_weights(), the last statement of __init__.
InitWeights ==
  /\ pc = "layers"
  /\ pc' = "ready"
  /\ params' = InitWeightsOf(params, layers)
  /\ params0' = params'
  /\ initCount' = initCount + 1
  /\ op' = "init_weights"
  /\ UNCHANGED <<cfg, layers, training, tieOrder, call, ref>>

\* nn.Module.eval() / nn.Module.train() of the constructed model.
SetMode(m) ==
  /\ pc = "ready"
  /\ training' = m
  /\ op' = "mode"
  /\ UNCHANGED <<pc, cfg, layers, params, params0, initCount, tieOrder, call, ref>>

\* ------------------------------------------------------- forward pass
\* Content of the caller's tensors.  Word(v, k, t) is the one-hot token at
\* time step t of question k; the question tensor is batch-major (B, T, V)
\* for a batch_first model and time-major (T, B, V) otherwise.
Word(k, t) == <<k, t>>

QuesTensor(c, B, T) ==
  IF c.batch_first
  THEN [k \in 1..B |-> [t \in 1..T |-> Word(k, t)]]
  ELSE [t \in 1..T |-> [k \in 1..B |-> Word(k, t)]]

QuesShape(c, B, T) ==
  IF c.batch_first THEN <<B, T, c.vocab_size>> ELSE <<T, B, c.vocab_size>>

\* One image (features, or pixels in raw mode) per item.
ImgTensor(B) == [k \in 1..B |-> [id |-> <<"img", k>>, mag |-> k]]

\* extractor.FeatureExtractor("vgg16"): pixels to a feature vector per item.
FeatureExtractor(img) ==
  [k \in DOMAIN img |-> [id |-> <<"vgg16", img[k].id[2]>>, mag |-> img[k].mag]]

\* img_feat / torch.norm(img_feat, p=2): one scalar norm over the whole
\* tensor.  The squared scale mag^2 / sum of squares is kept as a reduced
\* fraction.
Normalize(img) ==
  LET total == SumSq(img, Len(img)) IN
  [k \in DOMAIN img |->
     LET sq == img[k].mag * img[k].mag
         g  == GCD(sq, total) IN
     [id |-> img[k].id, num |-> sq \div g, den |-> total \div g]]

\* torch.sort(q_lens, descending=True): the indices in descending order of
\* length.  The order among equal lengths is fixed by the build (tie), not
\* by the caller.
Before(q_lens, tie, a, b) ==
  \/ q_lens[a] > q_lens[b]
  \/ /\ q_lens[a] = q_lens[b]
     /\ IF tie = "ascending" THEN a < b ELSE a > b

SortInds(q_lens, tie) ==
  LET pos == [k \in DOMAIN q_lens |->
                1 + Cardinality({m \in DOMAIN q_lens : Before(q_lens, tie, m, k)})]
  IN [i \in DOMAIN q_lens |-> CHOOSE k \in DOMAIN q_lens : pos[k] = i]

\* tensor[inds]: selection along axis 0; IndexError when an index is out
\* of the axis.
IndexSelect(tensor, inds) ==
  IF \E i \in DOMAIN inds : inds[i] > Len(tensor)
  THEN Failed
  ELSE [i \in DOMAIN inds |-> tensor[inds[i]]]

IndexShape(shape, t) == IF t = Failed THEN Failed ELSE [shape EXCEPT ![1] = Len(t)]

\* nn.Linear(in, out) on a tensor of the given shape.
LinearShape(shape, in, out) ==
  IF shape # Failed /\ Last(shape) = in THEN ReplaceLast(shape, out) ELSE Failed

\* nn.Dropout: random mask r in training mode, identity in evaluation mode.
DropoutAlways(x, train, r) == <<"drop", r, x>>
Dropout(x, train, r) == IF train THEN <<"drop", r, x>> ELSE <<"keep", "", x>>

\* The LSTM over one item's steps, from the zero state: its final state is
\* determined by the inputs it has consumed, in order.
LSTMFold(xs, n) == [t \in 1..n |-> xs[t]]

\* self.rnn(q): axis 0 is the batch for batch_first, else axis 1.  The final
\* (hidden, cell) of every item, after all steps of the time axis.
RnnBatch(c, q) ==
  IF q = Failed THEN 0 ELSE IF c.batch_first THEN Len(q) ELSE Len(q[1])
RnnSteps(c, q) ==
  IF q = Failed THEN 0 ELSE IF c.batch_first THEN Len(q[1]) ELSE Len(q)

RnnFinal(c, q) ==
  [b \in 1..RnnBatch(c, q) |->
     LET xs == [t \in 1..RnnSteps(c, q) |->
                  IF c.batch_first THEN q[b][t] ELSE q[t][b]]
     IN LSTMFold(xs, Len(xs))]

\* hidden_state, cell: (layers * directions, batch, hidden) -> transpose,
\* view(batch, -1), cat along dim 1.
QEmbedShape(c, batch) ==
  IF batch = 0 THEN Failed ELSE
  LET hShape == <<c.num_rnn_layers * c.num_directions, batch, c.hidden_dim>>
      tr     == <<hShape[2], hShape[1], hShape[3]>>
      flat   == <<tr[1], tr[2] * tr[3]>>
  IN <<flat[1], flat[2] + flat[2]>>

\* a * b with broadcasting of the two trailing axes.
BroadcastOK(a, b) == a = b \/ a = 1 \/ b = 1

MulShape(s1, s2) ==
  IF s1 # Failed /\ s2 # Failed
     /\ BroadcastOK(s1[1], s2[1]) /\ BroadcastOK(s1[2], s2[2])
  THEN <<Max(s1[1], s2[1]), Max(s1[2], s2[2])>>
  ELSE Failed

\* forward(img, ques, q_lens) without its dropout layers: the intermediate
\* tensors, where it stops (at) and, per output row, the question state and
\* the image it fuses.
Trace(c, tie, img, ques, quesShape, q_lens) ==
  LET img_feat      == IF c.raw_images THEN FeatureExtractor(img) ELSE img
      img_feat_norm == Normalize(img_feat)
      sorted_inds   == SortInds(q_lens, tie)
      ques2         == IndexSelect(ques, sorted_inds)
      q_lens2       == [i \in DOMAIN sorted_inds |-> q_lens[sorted_inds[i]]]
      shape2        == IndexShape(quesShape, ques2)
      qShape        == LinearShape(shape2, FanIn(c, "embedding"), FanOut(c, "embedding"))
      q_embed       == RnnFinal(c, ques2)
      qeShape       == IF qShape = Failed THEN Failed
                       ELSE QEmbedShape(c, RnnBatch(c, ques2))
      imgShape      == LinearShape(<<Len(img), c.image_dim>>,
                                   FanIn(c, "image_embed"), FanOut(c, "image_embed"))
      quesFShape    == LinearShape(qeShape, FanIn(c, "question_embed"),
                                   FanOut(c, "question_embed"))
      xShape        == MulShape(quesFShape, imgShape)
      outShape      == LinearShape(xShape, FanIn(c, "mlp"), FanOut(c, "mlp"))
  IN [sorted_inds |-> sorted_inds, ques |-> ques2, q_lens |-> q_lens2,
      at |-> IF ques2 = Failed THEN "index"
             ELSE IF quesFShape = Failed \/ imgShape = Failed THEN "linear"
             ELSE IF xShape = Failed THEN "fusion"
             ELSE IF outShape = Failed THEN "mlp" ELSE "return",
      shape |-> outShape,
      rows |-> IF outShape = Failed THEN Failed
               ELSE [i \in 1..outShape[1] |->
                       [q   |-> q_embed[IF Len(q_embed) = 1 THEN 1 ELSE i],
                        img |-> img_feat_norm[IF Len(img) = 1 THEN 1 ELSE i]]]]

\* The dropout layers of forward, in mode train with the generator at r.
WithDropout(tr, train, r) ==
  [tr EXCEPT !.rows = [i \in DOMAIN tr.rows |-> Dropout(tr.rows[i], train, r)]]

\* forward(img, ques, q_lens) with the model in mode train and the random
\* generator at r.
Run(c, train, r, tie, img, ques, quesShape, q_lens) ==
  WithDropout(Trace(c, tie, img, ques, quesShape, q_lens), train, r)

\* forward leaves every learned parameter as it is.
ForwardParamsDecay(ps) == [k \in DOMAIN ps |-> [ps[k] EXCEPT !.val = 0, !.by = "forward"]]
ForwardParams(ps) == ps

Inputs ==
  UNION {[B : {b}, T : {t}, q_lens : [1..b -> 1..t]] : b \in 1..MaxB, t \in 1..MaxT}

\* The batches of MaxB questions padded to MaxT steps.
FullInputs == {inp \in Inputs : inp.B = MaxB /\ inp.T = MaxT}

\* One call of forward on an input of ins, the generator being at any mask.
\* With rec, an observer remembers this call (one evaluation-mode call); it
\* then notes in between whether any other call has followed.
Forward(ins, rec) ==
  /\ pc = "ready"
  /\ rec => ~training /\ ref = None
  /\ \E inp \in ins :
       \E tr \in {Trace(cfg, tieOrder, ImgTensor(inp.B), QuesTensor(cfg, inp.B, inp.T),
                         QuesShape(cfg, inp.B, inp.T), inp.q_lens)} :
        \E mask \in Masks :
          LET res == WithDropout(tr, training, mask)
          IN
          /\ call' = [inp |-> inp, training |-> training, res |-> res]
          /\ ref' = IF rec THEN [call |-> call', between |-> FALSE]
                    ELSE IF ref = None THEN ref
                    ELSE [ref EXCEPT !.between =
                            @ \/ training \/ inp # ref.call.inp]
  /\ params' = ForwardParams(params)
  /\ op' = "forward"
  /\ UNCHANGED <<pc, cfg, layers, params0, initCount, training, tieOrder>>

Next ==
  \/ CreateLayers
  \/ InitWeights
  \/ \E m \in BOOLEAN : SetMode(m)
  \/ Forward(Inputs, FALSE)

Spec == Init /\ [][Next]_vars

\* The same program in its default layout, called on full batches, with an
\* observer that remembers one evaluation-mode call so that a later call can
\* be compared with it.
InitObserved ==
  /\ Init
  /\ cfg.image_embed_dim = MaxDim /\ cfg.rnn_output_dim = MaxDim
  /\ cfg.batch_first

NextObserved ==
  \/ CreateLayers
  \/ InitWeights
  \/ \E m \in BOOLEAN : SetMode(m)
  \/ Forward(FullInputs, FALSE)
  \/ Forward(FullInputs, TRUE)

SpecObserved == InitObserved /\ [][NextObserved]_vars

\* ------------------------------------------------------------- claims
Called == call # None
Returned == Called /\ call.res.at = "return"
DimsMatch == cfg.image_embed_dim = cfg.rnn_output_dim

\* The content of output row i, under its dropout wrapper.
RowBody(i) == call.res.rows[i][3]

\* The position the sort gives item k.
PosOf(k) == CHOOSE i \in DOMAIN call.res.sorted_inds : call.res.sorted_inds[i] = k

\* Question k of the caller's batch, all T steps in order.
Question(k, T) == [t \in 1..T |-> Word(k, t)]

\* Item i of a question tensor in the layout of the model.
ItemOf(tensor, i) ==
  IF cfg.batch_first THEN tensor[i] ELSE [t \in DOMAIN tensor |-> tensor[t][i]]

HasTie(q_lens) == \E i, j \in DOMAIN q_lens : i # j /\ q_lens[i] = q_lens[j]

\* C1: for every configuration with image_embed_dim = rnn_output_dim and
\* every well-formed batch, forward does not raise and returns a tensor of
\* shape (B, output_dim), whatever T and the lengths are.
C1_ShapeForEveryConfig ==
  (Called /\ DimsMatch) =>
     /\ call.res.at = "return"
     /\ call.res.shape = <<call.inp.B, cfg.output_dim>>

\* C1 restricted to batch_first models, where it holds.
C1_ShapeBatchFirst ==
  (Called /\ DimsMatch /\ cfg.batch_first) =>
     /\ call.res.at = "return"
     /\ call.res.shape = <<call.inp.B, cfg.output_dim>>

\* C2: with dropout disabled, row PosOf(k) of the output (the inverse of the
\* sort permutation applied to the rows) is the answer vector forward gives
\* on the batch of size 1 that holds only item k.  Stated for batch_first
\* models, the layout forward is written for.
SingleQues(c, k, T) ==
  IF c.batch_first THEN <<Question(k, T)>> ELSE [t \in 1..T |-> <<Word(k, t)>>]

Single(k) ==
  Run(cfg, FALSE, "m1", tieOrder, <<ImgTensor(call.inp.B)[k]>>,
      SingleQues(cfg, k, call.inp.T), QuesShape(cfg, 1, call.inp.T),
      <<call.inp.q_lens[k]>>)

C2_RoundTrip ==
  (Returned /\ ~call.training /\ cfg.batch_first) =>
     \A k \in 1..call.inp.B :
        /\ Single(k).at = "return"
        /\ call.res.rows[PosOf(k)] = Single(k).rows[1]

\* C3: no configuration with image_embed_dim # rnn_output_dim yields a model
\* whose forward call returns an answer tensor.
C3_MismatchNeverReturns ==
  (Called /\ ~DimsMatch) => call.res.at # "return"

\* C4: right after construction the weight of every Linear layer has been
\* drawn by init_weights within [-0.08, 0.08]; init_weights has written no
\* bias of those layers and no parameter of the LSTM.
LinearWeights ==
  {<<"embedding", 1, "weight">>, <<"image_embed", 2, "weight">>,
   <<"question_embed", 2, "weight">>, <<"mlp", 2, "weight">>}

C4_InitWritesLinearWeightsOnly ==
  pc = "ready" =>
     /\ LinearWeights \subseteq DOMAIN params
     /\ \A k \in DOMAIN params :
          IF k \in LinearWeights
          THEN /\ params[k].by = "init_weights"
               /\ params[k].writes = 2
               /\ params[k].val \in (-InitBound)..InitBound
          ELSE /\ params[k].by = "default"
               /\ params[k].writes = 1

\* A constructed model whose embedding weight was outside the range by
\* default and whose embedding bias still is.
C4_Witness ==
  /\ pc = "ready"
  /\ params[<<"embedding", 1, "weight">>].val \in (-InitBound)..InitBound
  /\ params[<<"embedding", 1, "bias">>].val \notin (-InitBound)..InitBound
  /\ params[<<"rnn", 0, "weight">>].by = "default"

\* C5: init_weights runs exactly once, after all layers exist and before the
\* first forward call, and no forward call writes a parameter or any other
\* field of the model: the parameters stay those of the construction.
C5_InitOnceForwardWritesNothing ==
  /\ [](pc = "ready" => initCount = 1 /\ params = params0)
  /\ [](pc # "ready" => initCount = 0 /\ call = None)
  /\ [][initCount' # initCount =>
          layers = Containers(cfg) /\ DOMAIN params = DOMAIN params']_vars
  /\ [][op' = "forward" =>
          UNCHANGED <<pc, cfg, layers, params, initCount, training>>]_vars

\* A forward call in training mode has been made on the constructed model.
C5_Witness ==
  /\ op = "forward" /\ Returned /\ call.training
  /\ initCount = 1 /\ params = params0

\* C6: in evaluation mode, a forward call on the input of a remembered
\* earlier evaluation-mode call returns the same output, whatever calls were
\* made in between, equal lengths included.
C6_EvalDeterministic ==
  (ref # None /\ Called /\ ~call.training /\ call.inp = ref.call.inp)
     => call.res = ref.call.res

\* A later evaluation-mode call on the remembered input, other calls having
\* been made in between, the batch holding items of equal length.
C6_Witness ==
  /\ ref # None /\ ref.between
  /\ op = "forward" /\ Returned /\ ~call.training
  /\ call.inp = ref.call.inp
  /\ HasTie(call.inp.q_lens)

\* C7: the sort step applies one permutation of the batch indices to the
\* question batch and to the length vector: item i of the reordered batch is
\* question sorted_inds[i] whole, its length sits at i, and the reordered
\* lengths do not increase.
SortStepRight ==
  LET p == call.res.sorted_inds
      B == call.inp.B
  IN /\ call.res.ques # Failed
     /\ {p[i] : i \in 1..B} = 1..B
     /\ \A i \in 1..B :
          /\ ItemOf(call.res.ques, i) = Question(p[i], call.inp.T)
          /\ call.res.q_lens[i] = call.inp.q_lens[p[i]]
     /\ \A i, j \in 1..B : i < j => call.res.q_lens[i] >= call.res.q_lens[j]

C7_SortSamePermutation == Called => SortStepRight

\* C7 restricted to batch_first models, where it holds.
C7_SortBatchFirst == (Called /\ cfg.batch_first) => SortStepRight

\* C8: every output row i is computed from the question and the image of one
\* item, the item the sort places at position i.  Stated for batch_first
\* models, the layout forward is written for.
C8_RowFromOneItem ==
  (Returned /\ cfg.batch_first) =>
     \A i \in 1..call.inp.B :
        /\ \A t \in DOMAIN RowBody(i).q :
              RowBody(i).q[t][1] = call.res.sorted_inds[i]
        /\ RowBody(i).img.id[2] = call.res.sorted_inds[i]

\* C9: the lengths act on forward only through the sort order: the encoder
\* consumes all T steps of every item in order, and a call that differs only
\* in lengths with the same order returns the same output.
EncoderConsumesAllSteps ==
  \A i \in 1..call.inp.B :
     RowBody(i).q = Question(call.res.sorted_inds[i], call.inp.T)

SameOrderSameOutput ==
  \A lens \in [1..call.inp.B -> 1..call.inp.T] :
     SortInds(lens, tieOrder) = call.res.sorted_inds =>
        Run(cfg, call.training, call.res.rows[1][2], tieOrder,
            ImgTensor(call.inp.B), QuesTensor(cfg, call.inp.B, call.inp.T),
            QuesShape(cfg, call.inp.B, call.inp.T), lens).rows = call.res.rows

C9_LengthsOnlyOrder ==
  Returned => EncoderConsumesAllSteps /\ SameOrderSameOutput

\* C9 restricted to batch_first models, where it holds.
C9_LengthsBatchFirst ==
  (Returned /\ cfg.batch_first) => EncoderConsumesAllSteps /\ SameOrderSameOutput

\* C10: a model built with batch_first false, given a time-major question
\* tensor, permutes the batch axis in the sort step, keeps every item's steps
\* in order, does not raise and returns (B, output_dim).
C10_TimeMajorSort ==
  (Called /\ ~cfg.batch_first /\ DimsMatch) =>
     /\ SortStepRight
     /\ call.res.at = "return"
     /\ call.res.shape = <<call.inp.B, cfg.output_dim>>

====
